---- MODULE Spec2Model ----
(***************************************************************************)
(* Partner matching and chat relay of the Telegram bot (src/bot.py).       *)
(*                                                                         *)
(* The store is the `users` table.  A handler is a coroutine: it gives up  *)
(* control only at an `await`, so one action of the model is the code      *)
(* between two awaits, and pc[t] names the await a handler is suspended    *)
(* at.  Every session of the code is created with autoflush=False, so the  *)
(* attribute assignments of a handler stay in its session (sess[t].dirty)  *)
(* until session_scope commits, and are dropped when it rolls back.        *)
(***************************************************************************)
EXTENDS Integers, Sequences, FiniteSets, TLC

\* ---------------------------------------------------------------- bounds
\* Telegram accounts that talk to the bot.
MaxUsers == 3

\* Accounts whose row is given the premium flag.
MaxPremium == 1

\* Handlers in flight at once when updates are processed concurrently.
MaxConcurrent == 2

\* Telegram's account ids are not the table's row ids: account k is 10 * k.
TelegramId(k) == 10 * k
TelegramIds == { TelegramId(k) : k \in 1..MaxUsers }
PremiumIds == { TelegramId(k) : k \in 1..MaxPremium }

\* ------------------------------------------------------------ data model
\* SQL NULL / Python None of an integer column.  Row ids start at 1, so both
\* `is None` and the truth test `if me.partner_id:` are "/= NULL".
NULL == 0

\* An optional string: None, or Some(s) with s a sequence of characters.
None == <<>>
Some(s) == <<s>>

CONTINENTS == <<"Africa", "Asia", "Europe", "NorthAmerica", "SouthAmerica", "Oceania">>

\* LANG_REGION_MAP, as (key, value) pairs.
LANG_REGION_MAP ==
    { <<(<<"i","d">>), "Asia">>, <<(<<"m","s">>), "Asia">>,
      <<(<<"z","h">>), "Asia">>, <<(<<"j","a">>), "Asia">>,
      <<(<<"e","n">>), "NorthAmerica">>,
      <<(<<"e","n","-","U","S">>), "NorthAmerica">>,
      <<(<<"e","n","-","G","B">>), "Europe">>,
      <<(<<"e","s">>), "SouthAmerica">>,
      <<(<<"e","s","-","E","S">>), "Europe">>,
      <<(<<"p","t","-","B","R">>), "SouthAmerica">>,
      <<(<<"f","r">>), "Europe">>, <<(<<"d","e">>), "Europe">>,
      <<(<<"r","u">>), "Europe">> }

\* dict.get(key, default)
MapGet(key, default) ==
    IF \E kv \in LANG_REGION_MAP : kv[1] = key
    THEN (CHOOSE kv \in LANG_REGION_MAP : kv[1] = key)[2]
    ELSE default

\* str.split("-")[0]: the characters before the first "-".
RECURSIVE SplitFirst(_)
SplitFirst(s) ==
    IF s = <<>> \/ Head(s) = "-" THEN <<>>
    ELSE <<Head(s)>> \o SplitFirst(Tail(s))

infer_region(language_code) ==
    IF language_code = None \/ language_code[1] = <<>>
    THEN "Europe"
    ELSE MapGet(language_code[1], MapGet(SplitFirst(language_code[1]), "Europe"))

\* The language codes Telegram reports in the modelled updates.
LanguageCodes == { None, Some(<<"j","a">>) }

\* Button tokens of main_menu.
Buttons == {"find", "next", "stop", "setregion"}

\* Message texts a user may type.
Texts == {"hello", "Asia", " Asia ", "Europe"}

VARIABLES
    users,              \* the users table: a sequence of rows, row id = index
    user_data,          \* context.user_data[t]["await_region"], per account
    concurrent_updates, \* Application setting: handlers that may be in flight
    pc,                 \* per account: where its handler is suspended
    query,              \* per account: the update being handled
    sess,               \* per account: the handler's open session
    sent,               \* per account: messages its current handler sent
    pre,                \* per account: the table when its handler began
    web                 \* per account: where a POST /wallet/init for it stands

vars == <<users, user_data, concurrent_updates, pc, query, sess, sent, pre, web>>

\* ------------------------------------------------------------- the store
Ids(us) == DOMAIN us

Max(S) == CHOOSE x \in S : \A y \in S : y <= x

\* datetime.utcnow() at a flush: later than every stored timestamp.
Now(us) == IF us = <<>> THEN 0 ELSE 1 + Max({us[i].updated_at : i \in Ids(us)})

\* Timestamps are only ever compared (ORDER BY updated_at), so the table keeps
\* their order: each is replaced by the number of distinct smaller ones.
Normalize(us) ==
    [i \in Ids(us) |->
        [us[i] EXCEPT !.updated_at =
            Cardinality({us[j].updated_at : j \in {k \in Ids(us) :
                             us[k].updated_at < us[i].updated_at}})]]

\* select(User).where(User.telegram_id == telegram_id).scalar_one_or_none()
RowOf(us, t) ==
    IF \E i \in Ids(us) : us[i].telegram_id = t
    THEN CHOOSE i \in Ids(us) : us[i].telegram_id = t
    ELSE NULL

\* get_user: the row of the account, inserted (and committed) when absent.
get_user(us, t, language_code) ==
    IF RowOf(us, t) /= NULL THEN us
    ELSE Normalize(Append(us, [telegram_id |-> t,
                               region      |-> infer_region(language_code),
                               premium     |-> FALSE,
                               partner_id  |-> NULL,
                               updated_at  |-> Now(us)]))

\* ------------------------------------------------------------- sessions
\* An update carries callback data (a button) or message text, not both.
NoText == ""
NoQuery == [data |-> "none", language_code |-> None, text |-> NoText]
NoWrites == [i \in {} |-> NULL]
NoSession == [me |-> NULL, partner |-> NULL, partner_tg |-> NULL, dirty |-> NoWrites]

Init ==
    /\ users = <<>>
    /\ user_data = [t \in TelegramIds |-> FALSE]
    /\ concurrent_updates = 1
    /\ pc = [t \in TelegramIds |-> "idle"]
    /\ query = [t \in TelegramIds |-> NoQuery]
    /\ sess = [t \in TelegramIds |-> NoSession]
    /\ sent = [t \in TelegramIds |-> <<>>]
    /\ pre = [t \in TelegramIds |-> <<>>]
    /\ web = [t \in TelegramIds |-> "idle"]

\* The dispatcher hands an update to a handler while fewer than
\* concurrent_updates handlers are in flight (Application.builder() as main()
\* calls it leaves the default: one at a time).  The code tells accounts apart
\* by equality only, so they make first contact in the order of their numbers.
CanDispatch(t) ==
    /\ pc[t] = "idle"
    /\ Cardinality({u \in TelegramIds : pc[u] /= "idle"}) < concurrent_updates
    /\ \A u \in TelegramIds : u < t => \E i \in Ids(users) : users[i].telegram_id = u

Msg(to, msg, ok) == [to |-> to, msg |-> msg, ok |-> ok]

\* cmd_start: get_user, then the greeting.
cmd_start(t, language_code, ok) ==
    /\ CanDispatch(t)
    /\ users' = get_user(users, t, language_code)
    /\ sent' = [sent EXCEPT ![t] = <<Msg(t, "welcome", ok)>>]
    /\ pre' = [pre EXCEPT ![t] = users]
    /\ pc' = [pc EXCEPT ![t] = "done"]
    /\ UNCHANGED <<user_data, concurrent_updates, web, query, sess>>

\* ------------------------------------------------------- session flush
Min(S) == CHOOSE x \in S : \A y \in S : x <= y

\* session.commit(): one UPDATE per row whose partner_id the handler changed,
\* in primary-key order; each UPDATE stamps updated_at (onupdate).  The second
\* UPDATE of a flush reads the clock again: the same instant (tie) or a later one.
Flush(us, dirty, tie) ==
    IF DOMAIN dirty = {} THEN us
    ELSE LET now == Now(us)
             first == Min(DOMAIN dirty)
         IN Normalize([i \in Ids(us) |->
                IF i \in DOMAIN dirty
                THEN [us[i] EXCEPT !.partner_id = dirty[i],
                                   !.updated_at = IF tie \/ i = first THEN now ELSE now + 1]
                ELSE us[i]])

\* ------------------------------------------------------ on_button: entry
\* A button press is dispatched; the handler suspends in `await query.answer()`.
on_button(t, data, language_code) ==
    /\ CanDispatch(t)
    /\ pc' = [pc EXCEPT ![t] = "answer"]
    /\ query' = [query EXCEPT ![t] = [data |-> data, language_code |-> language_code, text |-> NoText]]
    /\ sent' = [sent EXCEPT ![t] = <<>>]
    /\ pre' = [pre EXCEPT ![t] = users]
    /\ UNCHANGED <<users, user_data, concurrent_updates, web, sess>>

\* query.answer() raises: the handler ends before touching the store.
answer_failed(t) ==
    /\ pc[t] = "answer"
    /\ pc' = [pc EXCEPT ![t] = "done"]
    /\ UNCHANGED <<users, user_data, concurrent_updates, web, query, sess, sent, pre>>

\* ------------------------------------------------------- on_button: find
\* .filter(User.partner_id.is_(None), User.telegram_id != me.telegram_id,
\*         User.region == me.region)
\* Mutants of the scan's filter: one condition dropped.
CandidatesWithSelf(us, me) ==
    { i \in Ids(us) : us[i].partner_id = NULL /\ us[i].region = us[me].region }

CandidatesAnyRegion(us, me) ==
    { i \in Ids(us) : us[i].partner_id = NULL /\ us[i].telegram_id /= us[me].telegram_id }

CandidatesAnyState(us, me) ==
    { i \in Ids(us) : /\ us[i].telegram_id /= us[me].telegram_id
                      /\ us[i].region = us[me].region }

Candidates(us, me) ==
    { i \in Ids(us) : /\ us[i].partner_id = NULL
                      /\ us[i].telegram_id /= us[me].telegram_id
                      /\ us[i].region = us[me].region }

\* .order_by(User.updated_at.asc()).first(): a row of the smallest updated_at;
\* which one among equal timestamps is the database's choice.
\* Mutant: the order reversed (updated_at.desc()).
FirstNewest(us, rows) ==
    { i \in rows : \A j \in rows : us[i].updated_at >= us[j].updated_at }

First(us, rows) ==
    { i \in rows : \A j \in rows : us[i].updated_at <= us[j].updated_at }

\* Mutant: the partner's side of the link is not written.
LinkOneSided(me, partner) == [i \in {me} |-> partner]

\* me.partner_id = partner.id; partner.partner_id = me.id
Link(me, partner) == [i \in {me, partner} |-> IF i = me THEN partner ELSE me]

\* Mutant: the Paired test never stops a find.
AlreadyPairedNever(us, me) == FALSE

\* `if me.partner_id:` of the find branch
AlreadyPaired(us, me) == us[me].partner_id /= NULL

\* Resumed from query.answer(): get_user, merge, the Paired test, the scan, and
\* the link in the session; suspends in the reply to the requester.
find_scan(t, ok) ==
    /\ pc[t] = "answer"
    /\ query[t].data = "find"
    /\ LET us1 == get_user(users, t, query[t].language_code)
           me == RowOf(us1, t)
       IN /\ users' = us1
          /\ IF AlreadyPaired(us1, me)
             THEN /\ sent' = [sent EXCEPT ![t] = Append(@, Msg(t, "already", ok))]
                  /\ sess' = [sess EXCEPT ![t] = [NoSession EXCEPT !.me = me]]
                  /\ pc' = [pc EXCEPT ![t] = "done"]
             ELSE IF Candidates(us1, me) = {}
             THEN /\ sent' = [sent EXCEPT ![t] = Append(@, Msg(t, "waiting", ok))]
                  /\ sess' = [sess EXCEPT ![t] = [NoSession EXCEPT !.me = me]]
                  /\ pc' = [pc EXCEPT ![t] = "done"]
             ELSE \E partner \in First(us1, Candidates(us1, me)) :
                  /\ sess' = [sess EXCEPT ![t] =
                                 [me |-> me, partner |-> partner,
                                  partner_tg |-> us1[partner].telegram_id,
                                  dirty |-> Link(me, partner)]]
                  /\ sent' = sent
                  /\ pc' = [pc EXCEPT ![t] = "find_reply"]
    /\ UNCHANGED <<user_data, concurrent_updates, web, query, pre>>

\* Resumed from reply_text("Partner found"): on an exception session_scope
\* rolls back; else the handler suspends in the send to the partner.
find_replied(t, ok) ==
    /\ pc[t] = "find_reply"
    /\ sent' = [sent EXCEPT ![t] = Append(@, Msg(t, "found", ok))]
    /\ IF ok
       THEN /\ pc' = [pc EXCEPT ![t] = "find_notify"]
            /\ sess' = sess
       ELSE /\ pc' = [pc EXCEPT ![t] = "done"]
            /\ sess' = [sess EXCEPT ![t].dirty = NoWrites]
    /\ UNCHANGED <<users, user_data, concurrent_updates, web, query, pre>>

\* Mutant: only the partner's row is detached, the requester keeps its link.
DetachPartnerOnly(session) == [i \in {session.me} |-> session.partner]

\* partner.partner_id = None; me.partner_id = None: both rows are back at the
\* values they were loaded with, so the session has nothing left to write.
Detach(session) == NoWrites

\* Resumed from send_message(partner, "Partner found"): delivered, and the
\* session commits; or it raised, the handler detaches both rows, tells the
\* requester, and the session commits what is left.
find_notified(t, ok, ok2, tie) ==
    /\ pc[t] = "find_notify"
    /\ IF ok
       THEN /\ sent' = [sent EXCEPT ![t] = Append(@, Msg(sess[t].partner_tg, "found", TRUE))]
            /\ users' = Flush(users, sess[t].dirty, tie)
            /\ sess' = sess
       ELSE /\ sent' = [sent EXCEPT ![t] =
                           @ \o <<Msg(sess[t].partner_tg, "found", FALSE),
                                  Msg(t, "unreachable", ok2)>>]
            /\ users' = IF ok2 THEN Flush(users, Detach(sess[t]), tie) ELSE users
            /\ sess' = [sess EXCEPT ![t].dirty = Detach(sess[t])]
    /\ pc' = [pc EXCEPT ![t] = "done"]
    /\ UNCHANGED <<user_data, concurrent_updates, web, query, pre>>

\* ------------------------------------------------------- on_button: stop
\* Mutant: the ex-partner's row is left pointing at the requester.
\* (The definition below: me.partner_id = None, and partner.partner_id = None
\* when the partner's link points back: the rows the session will update.)
UnlinkSelfOnly(us, me) ==
    [i \in {j \in {me} : us[me].partner_id /= NULL} |-> NULL]

Unlink(us, me) ==
    LET partner == us[me].partner_id
    IN [i \in {j \in {me, partner} :
                  /\ j /= NULL
                  /\ us[me].partner_id /= NULL
                  /\ (j = me \/ (j \in Ids(us) /\ us[j].partner_id = me))} |-> NULL]

\* `partner and partner.partner_id == me.id`
Reciprocal(us, me) ==
    /\ us[me].partner_id \in Ids(us)
    /\ us[us[me].partner_id].partner_id = me

UnlinkSession(us, me) ==
    [me |-> me, partner |-> us[me].partner_id,
     partner_tg |-> IF us[me].partner_id \in Ids(us)
                    THEN us[us[me].partner_id].telegram_id ELSE NULL,
     dirty |-> Unlink(us, me)]

\* Mutant: the Idle test never stops a stop.
NotInChatNever(us, me) == FALSE

\* `if not me.partner_id:` of the stop branch
NotInChat(us, me) == us[me].partner_id = NULL

\* Resumed from query.answer(): get_user, merge, the Idle test, the unlink in
\* the session; suspends in the notice to the ex-partner, or in the reply.
stop_unlink(t, ok) ==
    /\ pc[t] = "answer"
    /\ query[t].data = "stop"
    /\ LET us1 == get_user(users, t, query[t].language_code)
           me == RowOf(us1, t)
       IN /\ users' = us1
          /\ sess' = [sess EXCEPT ![t] = UnlinkSession(us1, me)]
          /\ IF NotInChat(us1, me)
             THEN /\ sent' = [sent EXCEPT ![t] = Append(@, Msg(t, "not_in_chat", ok))]
                  /\ pc' = [pc EXCEPT ![t] = "done"]
             ELSE /\ sent' = sent
                  /\ pc' = [pc EXCEPT ![t] =
                               IF Reciprocal(us1, me) THEN "stop_notify" ELSE "stop_reply"]
    /\ UNCHANGED <<user_data, concurrent_updates, web, query, pre>>

\* Resumed from send_message(partner, "Your partner left"): an exception is
\* swallowed; suspends in the reply to the requester.
stop_notified(t, ok) ==
    /\ pc[t] = "stop_notify"
    /\ sent' = [sent EXCEPT ![t] = Append(@, Msg(sess[t].partner_tg, "partner_left", ok))]
    /\ pc' = [pc EXCEPT ![t] = "stop_reply"]
    /\ UNCHANGED <<users, user_data, concurrent_updates, web, query, sess, pre>>

\* Resumed from reply_text("Left chat", menu): the session commits, or, when
\* the reply raised, rolls back.
stop_replied(t, ok, tie) ==
    /\ pc[t] = "stop_reply"
    /\ sent' = [sent EXCEPT ![t] = Append(@, Msg(t, "left_chat_menu", ok))]
    /\ IF ok
       THEN /\ users' = Flush(users, sess[t].dirty, tie)
            /\ sess' = sess
       ELSE /\ users' = users
            /\ sess' = [sess EXCEPT ![t].dirty = NoWrites]
    /\ pc' = [pc EXCEPT ![t] = "done"]
    /\ UNCHANGED <<user_data, concurrent_updates, web, query, pre>>

\* ------------------------------------------------------- on_button: next
\* Leaving the `with` block commits the unlink; the handler then suspends in
\* reply_text("Searching new partner").
next_commit(t, tie) ==
    /\ users' = Flush(users, sess[t].dirty, tie)
    /\ pc' = [pc EXCEPT ![t] = "next_reply"]

\* Resumed from query.answer(): get_user, merge, the unlink in the session;
\* suspends in the notice to the ex-partner, or commits at once.
next_unlink(t, tie) ==
    /\ pc[t] = "answer"
    /\ query[t].data = "next"
    /\ LET us1 == get_user(users, t, query[t].language_code)
           me == RowOf(us1, t)
       IN /\ sess' = [sess EXCEPT ![t] = UnlinkSession(us1, me)]
          /\ IF us1[me].partner_id /= NULL /\ Reciprocal(us1, me)
             THEN /\ users' = us1
                  /\ pc' = [pc EXCEPT ![t] = "next_notify"]
             ELSE /\ users' = Flush(us1, Unlink(us1, me), tie)
                  /\ pc' = [pc EXCEPT ![t] = "next_reply"]
    /\ UNCHANGED <<user_data, concurrent_updates, web, query, sent, pre>>

\* Resumed from send_message(partner, "Your partner skipped you"): an
\* exception is swallowed, the session commits.
next_notified(t, ok, tie) ==
    /\ pc[t] = "next_notify"
    /\ sent' = [sent EXCEPT ![t] = Append(@, Msg(sess[t].partner_tg, "skipped", ok))]
    /\ next_commit(t, tie)
    /\ UNCHANGED <<user_data, concurrent_updates, web, query, sess, pre>>

\* query.data = "find"; await on_button(update, context)
ReuseFind(q) == [q EXCEPT !.data = "find"]

\* Resumed from reply_text("Searching new partner"): the handler calls itself
\* with the token replaced, and suspends in query.answer() again; when the
\* reply raised, the handler ends.
next_replied(t, ok) ==
    /\ pc[t] = "next_reply"
    /\ sent' = [sent EXCEPT ![t] = Append(@, Msg(t, "searching", ok))]
    /\ IF ok
       THEN /\ query' = [query EXCEPT ![t] = ReuseFind(@)]
            /\ pc' = [pc EXCEPT ![t] = "answer"]
            /\ pre' = [pre EXCEPT ![t] = users]
       ELSE /\ query' = query
            /\ pc' = [pc EXCEPT ![t] = "done"]
            /\ pre' = pre
    /\ UNCHANGED <<users, user_data, concurrent_updates, web, sess>>

\* -------------------------------------------------- on_button: setregion
\* Mutant: setregion is open to everybody.
PremiumOnlyNever(us, me) == FALSE

\* `if not user.premium:` of the setregion branch
PremiumOnly(us, me) == ~us[me].premium

\* Resumed from query.answer(): get_user, the premium test, the sub-mode flag;
\* the reply is the handler's last await.
set_region(t, ok) ==
    /\ pc[t] = "answer"
    /\ query[t].data = "setregion"
    /\ LET us1 == get_user(users, t, query[t].language_code)
           me == RowOf(us1, t)
       IN /\ users' = us1
          /\ IF PremiumOnly(us1, me)
             THEN /\ sent' = [sent EXCEPT ![t] = Append(@, Msg(t, "premium_only", ok))]
                  /\ user_data' = user_data
             ELSE /\ sent' = [sent EXCEPT ![t] = Append(@, Msg(t, "region_prompt", ok))]
                  /\ user_data' = [user_data EXCEPT ![t] = TRUE]
    /\ pc' = [pc EXCEPT ![t] = "done"]
    /\ UNCHANGED <<concurrent_updates, web, query, sess, pre>>

\* ---------------------------------------------------------------- on_text
\* str.strip()
Strip(txt) == IF txt = " Asia " THEN "Asia" ELSE txt

InContinents(r) == \E i \in DOMAIN CONTINENTS : CONTINENTS[i] = r

\* Mutant: the new region never reaches the row.
UpdateRegionDropped(us, me, new_region) == us

\* me.region = new_region, committed; an unchanged value writes nothing.
UpdateRegion(us, me, new_region) ==
    IF us[me].region = new_region THEN us
    ELSE Normalize([us EXCEPT ![me].region = new_region, ![me].updated_at = Now(us)])

\* Mutant: a failed delivery is swallowed without a word to the sender.
RelaySilentFailure(us, me, t, ok, ok2) ==
    LET partner == us[me].partner_id
    IN IF partner = NULL THEN <<Msg(t, "use_buttons", ok)>>
       ELSE IF partner \notin Ids(us) THEN <<Msg(t, "partner_missing", ok)>>
       ELSE <<Msg(us[partner].telegram_id, "text", ok)>>

\* The relay branch of on_text: what is sent, given user.partner_id and the
\* row it names. ok is the outcome of the first send, ok2 of the failure
\* notice. The branch writes nothing to the store.
Relay(us, me, t, ok, ok2) ==
    LET partner == us[me].partner_id
    IN IF partner = NULL THEN <<Msg(t, "use_buttons", ok)>>
       ELSE IF partner \notin Ids(us) THEN <<Msg(t, "partner_missing", ok)>>
       ELSE IF ok THEN <<Msg(us[partner].telegram_id, "text", TRUE)>>
       ELSE <<Msg(us[partner].telegram_id, "text", FALSE),
              Msg(t, "delivery_failed", ok2)>>

\* on_text has no await before its last store access: region input when the
\* sub-mode is on and the user is premium, else relay to user.partner_id.
on_text(t, txt, language_code, ok, ok2) ==
    /\ CanDispatch(t)
    /\ pre' = [pre EXCEPT ![t] = users]
    /\ pc' = [pc EXCEPT ![t] = "done"]
    /\ LET us1 == get_user(users, t, language_code)
           me == RowOf(us1, t)
       IN IF user_data[t] /\ us1[me].premium
          THEN IF ~InContinents(Strip(txt))
               THEN /\ users' = us1
                    /\ user_data' = user_data
                    /\ sent' = [sent EXCEPT ![t] = <<Msg(t, "invalid_region", ok)>>]
               ELSE /\ users' = UpdateRegion(us1, me, Strip(txt))
                    /\ user_data' = [user_data EXCEPT ![t] = FALSE]
                    /\ sent' = [sent EXCEPT ![t] = <<Msg(t, "region_updated", ok)>>]
          ELSE /\ users' = us1
               /\ user_data' = user_data
               /\ sent' = [sent EXCEPT ![t] = Relay(us1, me, t, ok, ok2)]
    /\ query' = [query EXCEPT ![t] = [NoQuery EXCEPT !.text = txt]]
    /\ UNCHANGED <<concurrent_updates, web, sess>>

\* ------------------------------------------------------------ environment
\* No handler writes users.premium: the flag is set on the row from outside
\* the bot (a direct UPDATE, which does not run the ORM's onupdate).
grant_premium(t) ==
    /\ t \in PremiumIds
    /\ RowOf(users, t) /= NULL
    /\ ~users[RowOf(users, t)].premium
    /\ users' = [users EXCEPT ![RowOf(users, t)].premium = TRUE]
    /\ UNCHANGED <<user_data, concurrent_updates, web, pc, query, sess, sent, pre>>

\* The handler has returned; the dispatcher may hand out the next update.
Return(t) ==
    /\ pc[t] = "done"
    /\ pc' = [pc EXCEPT ![t] = "idle"]
    /\ query' = [query EXCEPT ![t] = NoQuery]
    /\ sess' = [sess EXCEPT ![t] = NoSession]
    /\ sent' = [sent EXCEPT ![t] = <<>>]
    /\ pre' = [pre EXCEPT ![t] = <<>>]
    /\ UNCHANGED <<users, user_data, concurrent_updates, web>>

Next ==
    \/ \E t \in TelegramIds, lc \in LanguageCodes, ok \in BOOLEAN : cmd_start(t, lc, ok)
    \/ \E t \in TelegramIds, d \in Buttons, lc \in LanguageCodes : on_button(t, d, lc)
    \/ \E t \in TelegramIds : answer_failed(t)
    \/ \E t \in TelegramIds, ok \in BOOLEAN : find_scan(t, ok)
    \/ \E t \in TelegramIds, ok \in BOOLEAN : find_replied(t, ok)
    \/ \E t \in TelegramIds, ok, ok2, tie \in BOOLEAN : find_notified(t, ok, ok2, tie)
    \/ \E t \in TelegramIds, ok \in BOOLEAN : stop_unlink(t, ok)
    \/ \E t \in TelegramIds, ok \in BOOLEAN : stop_notified(t, ok)
    \/ \E t \in TelegramIds, ok, tie \in BOOLEAN : stop_replied(t, ok, tie)
    \/ \E t \in TelegramIds, tie \in BOOLEAN : next_unlink(t, tie)
    \/ \E t \in TelegramIds, ok, tie \in BOOLEAN : next_notified(t, ok, tie)
    \/ \E t \in TelegramIds, ok \in BOOLEAN : next_replied(t, ok)
    \/ \E t \in TelegramIds, ok \in BOOLEAN : set_region(t, ok)
    \/ \E t \in TelegramIds, txt \in Texts, lc \in LanguageCodes, ok, ok2 \in BOOLEAN :
          on_text(t, txt, lc, ok, ok2)
    \/ \E t \in TelegramIds : grant_premium(t)
    \/ \E t \in TelegramIds : Return(t)

Spec == Init /\ [][Next]_vars

\* ---------------------------------------------------------- web process
\* region = Column(String(32), default=None): a row inserted without a region
NoRegion == ""

\* wallet_init runs in the web process, on the same database as the bot: the
\* bot's statements can fall between its SELECT and its INSERT.
\* SELECT users WHERE telegram_id = body.telegram_id
wallet_select(t) ==
    /\ \A u \in TelegramIds : web[u] = "idle"
    /\ \A u \in TelegramIds : u < t => RowOf(users, u) /= NULL
    /\ web' = [web EXCEPT ![t] = IF RowOf(users, t) = NULL THEN "absent" ELSE "present"]
    /\ UNCHANGED <<users, user_data, concurrent_updates, pc, query, sess, sent, pre>>

\* `if not user: s.add(User(telegram_id=...)); s.flush()`, and the rest of the
\* request up to the commit. telegram_id is unique: the INSERT of a second row
\* for the identifier raises IntegrityError, which nothing catches; the
\* session rolls back and the request fails.
wallet_insert(t) ==
    /\ web[t] \in {"absent", "present"}
    /\ IF web[t] = "present"
       THEN /\ users' = users
            /\ web' = [web EXCEPT ![t] = "ok"]
       ELSE IF RowOf(users, t) /= NULL
       THEN /\ users' = users
            /\ web' = [web EXCEPT ![t] = "IntegrityError"]
       ELSE /\ users' = Normalize(Append(users, [telegram_id |-> t,
                                                region      |-> NoRegion,
                                                premium     |-> FALSE,
                                                partner_id  |-> NULL,
                                                updated_at  |-> Now(users)]))
            /\ web' = [web EXCEPT ![t] = "ok"]
    /\ UNCHANGED <<user_data, concurrent_updates, pc, query, sess, sent, pre>>

\* The response (200, or 500 after the IntegrityError) has been sent.
wallet_return(t) ==
    /\ web[t] \in {"ok", "IntegrityError"}
    /\ web' = [web EXCEPT ![t] = "idle"]
    /\ UNCHANGED <<users, user_data, concurrent_updates, pc, query, sess, sent, pre>>

\* ------------------------------------------------------ utils.py helper
\* Language codes for the first-contact paths: no code, the empty code, exact
\* keys of LANG_REGION_MAP, codes known by their primary subtag only, unknown
\* codes.
ResolveCodes ==
    { None, Some(<<>>),
      Some(<<"j","a">>), Some(<<"j","a","-","J","P">>),
      Some(<<"e","n">>), Some(<<"e","n","-","G","B">>),
      Some(<<"p","t","-","B","R">>), Some(<<"p","t">>),
      Some(<<"x","x","-","u","n","k","n","o","w","n">>) }

\* The Python str of a language code held as a sequence of characters.
CodeStrings ==
    { <<(<<"j","a">>), "ja">>, <<(<<"j","a","-","J","P">>), "ja-JP">>,
      <<(<<"e","n">>), "en">>, <<(<<"e","n","-","G","B">>), "en-GB">>,
      <<(<<"p","t","-","B","R">>), "pt-BR">>, <<(<<"p","t">>), "pt">>,
      <<(<<"x","x","-","u","n","k","n","o","w","n">>), "xx-unknown">> }

Join(s) == (CHOOSE kv \in CodeStrings : kv[1] = s)[2]

\* get_or_create_user(db, tg_id, lang_code), called for an update of account
\* t: the row is inserted when absent, with the language code itself, or
\* "global", as its region.
get_or_create_user(t, lang_code) ==
    /\ CanDispatch(t)
    /\ users' = IF RowOf(users, t) /= NULL THEN users
                ELSE Normalize(Append(users,
                        [telegram_id |-> t,
                         region      |-> IF lang_code = None \/ lang_code[1] = <<>>
                                         THEN "global" ELSE Join(lang_code[1]),
                         premium     |-> FALSE,
                         partner_id  |-> NULL,
                         updated_at  |-> Now(users)]))
    /\ query' = [query EXCEPT ![t] = [NoQuery EXCEPT !.language_code = lang_code]]
    /\ sent' = [sent EXCEPT ![t] = <<>>]
    /\ pre' = [pre EXCEPT ![t] = users]
    /\ pc' = [pc EXCEPT ![t] = "done"]
    /\ UNCHANGED <<user_data, concurrent_updates, web, sess>>

\* First contact through a bot handler (get_user), through the helper of
\* utils.py, and through the web process.
NextStore ==
    \/ \E t \in TelegramIds, lc \in ResolveCodes : on_button(t, "setregion", lc)
    \/ \E t \in TelegramIds : answer_failed(t)
    \/ \E t \in TelegramIds, ok \in BOOLEAN : set_region(t, ok)
    \/ \E t \in TelegramIds, lc \in LanguageCodes : get_or_create_user(t, lc)
    \/ \E t \in TelegramIds : Return(t)
    \/ \E t \in TelegramIds : wallet_select(t)
    \/ \E t \in TelegramIds : wallet_insert(t)
    \/ \E t \in TelegramIds : wallet_return(t)

SpecStore == Init /\ [][NextStore]_vars

\* Updates processed concurrently (Application.builder().concurrent_updates):
\* accounts register and press Find, and their handlers interleave at awaits.
InitConc ==
    /\ users = <<>>
    /\ user_data = [t \in TelegramIds |-> FALSE]
    /\ concurrent_updates = MaxConcurrent
    /\ pc = [t \in TelegramIds |-> "idle"]
    /\ query = [t \in TelegramIds |-> NoQuery]
    /\ sess = [t \in TelegramIds |-> NoSession]
    /\ sent = [t \in TelegramIds |-> <<>>]
    /\ pre = [t \in TelegramIds |-> <<>>]
    /\ web = [t \in TelegramIds |-> "idle"]

NextConc ==
    \/ \E t \in TelegramIds, lc \in LanguageCodes, ok \in BOOLEAN : cmd_start(t, lc, ok)
    \/ \E t \in TelegramIds, lc \in LanguageCodes : on_button(t, "find", lc)
    \/ \E t \in TelegramIds : answer_failed(t)
    \/ \E t \in TelegramIds, ok \in BOOLEAN : find_scan(t, ok)
    \/ \E t \in TelegramIds, ok \in BOOLEAN : find_replied(t, ok)
    \/ \E t \in TelegramIds, ok, ok2, tie \in BOOLEAN : find_notified(t, ok, ok2, tie)
    \/ \E t \in TelegramIds : Return(t)

SpecConc == InitConc /\ [][NextConc]_vars

\* Concurrent updates as in SpecConc, with text messages as well: a text
\* handler reads whatever links the interleaved finds have committed.
NextRelay ==
    \/ \E t \in TelegramIds, lc \in LanguageCodes, ok \in BOOLEAN : cmd_start(t, lc, ok)
    \/ \E t \in TelegramIds, lc \in LanguageCodes : on_button(t, "find", lc)
    \/ \E t \in TelegramIds : answer_failed(t)
    \/ \E t \in TelegramIds, ok \in BOOLEAN : find_scan(t, ok)
    \/ \E t \in TelegramIds, ok \in BOOLEAN : find_replied(t, ok)
    \/ \E t \in TelegramIds, ok, ok2, tie \in BOOLEAN : find_notified(t, ok, ok2, tie)
    \/ \E t \in TelegramIds, lc \in LanguageCodes, ok, ok2 \in BOOLEAN :
          on_text(t, "hello", lc, ok, ok2)
    \/ \E t \in TelegramIds : Return(t)

SpecRelay == InitConc /\ [][NextRelay]_vars

\* ----------------------------------------------------- a passive account
\* The account that never asks for a partner: it sends /start and may press
\* Stop, nothing else.
PassiveId == TelegramId(1)

\* Sequential dispatch of /start, Find and Stop, with Find pressed by the
\* other accounts only.
NextPool ==
    \/ \E t \in TelegramIds, lc \in LanguageCodes, ok \in BOOLEAN : cmd_start(t, lc, ok)
    \/ \E t \in TelegramIds \ {PassiveId}, lc \in LanguageCodes : on_button(t, "find", lc)
    \/ \E t \in TelegramIds, lc \in LanguageCodes : on_button(t, "stop", lc)
    \/ \E t \in TelegramIds : answer_failed(t)
    \/ \E t \in TelegramIds, ok \in BOOLEAN : find_scan(t, ok)
    \/ \E t \in TelegramIds, ok \in BOOLEAN : find_replied(t, ok)
    \/ \E t \in TelegramIds, ok, ok2, tie \in BOOLEAN : find_notified(t, ok, ok2, tie)
    \/ \E t \in TelegramIds, ok \in BOOLEAN : stop_unlink(t, ok)
    \/ \E t \in TelegramIds, ok \in BOOLEAN : stop_notified(t, ok)
    \/ \E t \in TelegramIds, ok, tie \in BOOLEAN : stop_replied(t, ok, tie)
    \/ \E t \in TelegramIds : Return(t)

SpecPool == Init /\ [][NextPool]_vars

\* ================================================================ claims
HasMsg(t, to, msg) ==
    \E k \in DOMAIN sent[t] : sent[t][k].to = to /\ sent[t][k].msg = msg

HasSend(t, to, msg, ok) ==
    \E k \in DOMAIN sent[t] : sent[t][k] = Msg(to, msg, ok)

\* The find handler of account t has ended with the pairing committed.
FindPaired(t) ==
    /\ pc[t] = "done"
    /\ sess[t].partner /= NULL
    /\ HasSend(t, sess[t].partner_tg, "found", TRUE)

\* C1: partner linkage is symmetric in every committed state of the store:
\* for all rows a and b, a's partner is b exactly when b's partner is a.
C1_Symmetric ==
    \A a, b \in Ids(users) : users[a].partner_id = b <=> users[b].partner_id = a

\* C1 witness: a stop has been committed: the ex-partner was notified and both
\* sides of the former pairing are Idle.
C1_Witness ==
    \E t \in TelegramIds :
        /\ pc[t] = "done"
        /\ HasSend(t, t, "left_chat_menu", TRUE)
        /\ HasMsg(t, sess[t].partner_tg, "partner_left")
        /\ users[sess[t].me].partner_id = NULL
        /\ users[sess[t].partner].partner_id = NULL

C3_NoSelfPartner ==
    \A a \in Ids(users) : users[a].partner_id /= a

\* C3 witness: a find by an Idle requester has committed a pairing, the
\* requester being itself an Idle row of its own region during the scan.
C3_Witness ==
    \E t \in TelegramIds :
        /\ FindPaired(t)
        /\ users[sess[t].me].partner_id = sess[t].partner
        /\ sess[t].me \in Ids(pre[t])
        /\ pre[t][sess[t].me].partner_id = NULL

\* The step condition of C4: a row's partner field becomes set only when a find commits, and then
\* only for the requester M and the selected row U, where just before the
\* commit M has no partner, U has no partner, U is not M and U.region = M.region.
C4_PairingStep ==
    \A i \in Ids(users') :
        ( /\ users'[i].partner_id /= NULL
          /\ (i \in Ids(users) => users[i].partner_id /= users'[i].partner_id) )
        => \E t \in TelegramIds :
              LET M == sess[t].me
                  U == sess[t].partner
              IN /\ pc[t] = "find_notify" /\ pc'[t] = "done"
                 /\ i \in {M, U}
                 /\ users'[M].partner_id = U /\ users'[U].partner_id = M
                 /\ users[M].partner_id = NULL
                 /\ users[U].partner_id = NULL
                 /\ U /= M
                 /\ users[U].telegram_id /= users[M].telegram_id
                 /\ users[U].region = users[M].region

\* C4, as a property of every step: a pairing is created only by the commit
\* of a find, between an Idle requester and an Idle row of its region.
C4_FindPairsEligible == [][C4_PairingStep]_vars

\* C4 witness: a find has committed a pairing while a row of another region
\* was Idle.
C4_Witness ==
    \E t \in TelegramIds :
        /\ FindPaired(t)
        /\ users[sess[t].me].partner_id = sess[t].partner
        /\ \E j \in Ids(users) :
              /\ users[j].partner_id = NULL
              /\ users[j].region /= users[sess[t].me].region

\* Rows a find by row `me` may select, stated on the table.
Eligible(us, me) ==
    { j \in Ids(us) : us[j].partner_id = NULL /\ j /= me /\ us[j].region = us[me].region }

C6_NotifyFailureUndone ==
    \A t \in TelegramIds :
        ( /\ pc[t] = "done"
          /\ sess[t].partner /= NULL
          /\ HasSend(t, sess[t].partner_tg, "found", FALSE) )
        => /\ users[sess[t].me].partner_id = NULL
           /\ users[sess[t].partner].partner_id = NULL
           /\ HasMsg(t, users[sess[t].me].telegram_id, "unreachable")

\* C6 witness: a find has ended after the notice to its partner failed.
C6_Witness ==
    \E t \in TelegramIds :
        /\ pc[t] = "done"
        /\ sess[t].partner /= NULL
        /\ HasSend(t, sess[t].partner_tg, "found", FALSE)
        /\ HasSend(t, t, "found", TRUE)

\* The stop handler of account t has ended, and its requester was Paired
\* when it was handled.
StopOfPaired(t) ==
    /\ pc[t] = "done"
    /\ query[t].data = "stop"
    /\ sess[t].me \in Ids(pre[t])
    /\ pre[t][sess[t].me].partner_id /= NULL

\* C7: a stop by a Paired A with partner B leaves A.partner null, leaves
\* B.partner null when it pointed back at A, sends B the "partner left" notice
\* exactly when B.partner = A held, and always ends with the requester Idle
\* and sent the full menu.
C7_StopUnlinksBoth ==
    \A t \in TelegramIds :
        StopOfPaired(t) =>
            LET A == sess[t].me
                B == pre[t][A].partner_id
            IN /\ users[A].partner_id = NULL
               /\ (pre[t][B].partner_id = A => users[B].partner_id = NULL)
               /\ (HasMsg(t, pre[t][B].telegram_id, "partner_left")
                      <=> pre[t][B].partner_id = A)
               /\ HasMsg(t, t, "left_chat_menu")

\* Find attempts the handler of account t has run: each ends in exactly one
\* of these replies to the requester.
FindAttempts(t) ==
    Cardinality({ k \in DOMAIN sent[t] :
                    /\ sent[t][k].to = t
                    /\ sent[t][k].msg \in {"already", "waiting", "found"} })

\* C8: when the unlink of a next is committed the requester and the skipped
\* partner are both Idle, the partner has been sent "partner skipped you", no
\* find has run yet, and a next by an Idle requester has changed no partner
\* field; the handler then runs exactly one find attempt.
C8_NextUnlinkThenOneFind ==
    \A t \in TelegramIds :
        /\ pc[t] = "next_reply" =>
              /\ users[sess[t].me].partner_id = NULL
              /\ FindAttempts(t) = 0
              /\ sess[t].partner /= NULL =>
                    /\ users[sess[t].partner].partner_id = NULL
                    /\ HasMsg(t, sess[t].partner_tg, "skipped")
              /\ sess[t].partner = NULL =>
                    \A i \in Ids(pre[t]) : users[i].partner_id = pre[t][i].partner_id
        /\ (pc[t] = "done" /\ HasMsg(t, t, "searching")) => FindAttempts(t) = 1

\* C9: a text of sender A is forwarded to B only if A.partner = B and
\* B.partner = A; a text of an Idle sender is forwarded to nobody.
C9_RelayOnlyWhilePaired ==
    \A t \in TelegramIds : \A k \in DOMAIN sent[t] :
        sent[t][k].msg = "text" =>
            LET A == RowOf(users, t)
                B == users[A].partner_id
            IN /\ B /= NULL
               /\ sent[t][k].to = users[B].telegram_id
               /\ users[B].partner_id = A

\* C9 witness: a text has been delivered to the sender's partner.
C9_Witness ==
    \E t \in TelegramIds :
        /\ pc[t] = "done"
        /\ \E k \in DOMAIN sent[t] : sent[t][k].msg = "text" /\ sent[t][k].ok

\* Rows of the table `us` that a find by account t of region r may select.
EligibleFor(us, t, r) ==
    { j \in Ids(us) : us[j].partner_id = NULL /\ us[j].telegram_id /= t /\ us[j].region = r }

\* The find of account t has run its scan and ended; when it began the
\* requester was Idle (or had no row yet) and the table held no eligible candidate.
FindWithoutCandidate(t) ==
    /\ pc[t] = "done"
    /\ query[t].data = "find"
    /\ FindAttempts(t) = 1
    /\ sess[t].me \in Ids(pre[t]) => pre[t][sess[t].me].partner_id = NULL
    /\ EligibleFor(pre[t], t, users[sess[t].me].region) = {}

\* C10: a find that finds no eligible candidate changes no partner or region
\* field of any row, leaves the requester Idle and sends it the "waiting" notice.
C10_NoCandidateNoChange ==
    \A t \in TelegramIds :
        FindWithoutCandidate(t) =>
            /\ \A i \in Ids(pre[t]) :
                  /\ users[i].partner_id = pre[t][i].partner_id
                  /\ users[i].region = pre[t][i].region
            /\ users[sess[t].me].partner_id = NULL
            /\ HasMsg(t, t, "waiting")

\* C10 witness: a find by an existing Idle row has ended without a candidate
\* while an Idle row of another region was in the table.
C10_Witness ==
    \E t \in TelegramIds :
        /\ FindWithoutCandidate(t)
        /\ sess[t].me \in Ids(pre[t])
        /\ \E j \in Ids(pre[t]) :
              /\ pre[t][j].partner_id = NULL
              /\ pre[t][j].region /= users[sess[t].me].region

\* The find of account t has run its scan and ended, and its requester was
\* Paired when the find began.
FindOfPaired(t) ==
    /\ pc[t] = "done"
    /\ query[t].data = "find"
    /\ sess[t].me \in Ids(pre[t])
    /\ pre[t][sess[t].me].partner_id /= NULL

\* C11: a find by a Paired requester is a no-op: the requester keeps its
\* partner, no row's partner field changes, nobody but the requester is sent
\* anything, and the requester is sent the "already connected" notice.
C11_PairedFindNoOp ==
    \A t \in TelegramIds :
        FindOfPaired(t) =>
            /\ Ids(users) = Ids(pre[t])
            /\ \A i \in Ids(users) : users[i].partner_id = pre[t][i].partner_id
            /\ Len(sent[t]) = 1
            /\ sent[t][1].to = t
            /\ sent[t][1].msg = "already"

\* C11 witness: a Paired requester's find has ended while an Idle row of its
\* region was in the table.
C11_Witness ==
    \E t \in TelegramIds :
        /\ FindOfPaired(t)
        /\ \E j \in Ids(users) :
              /\ users[j].partner_id = NULL
              /\ users[j].region = users[sess[t].me].region

\* The stop of account t has ended, and its requester was an Idle row when the
\* stop began.
StopOfIdle(t) ==
    /\ pc[t] = "done"
    /\ query[t].data = "stop"
    /\ sess[t].me \in Ids(pre[t])
    /\ pre[t][sess[t].me].partner_id = NULL

\* C12: a stop by an Idle requester sends the requester the "not in chat"
\* notice and nothing else, and leaves every row's identifier, partner, region
\* and timestamp as they were (premium is granted out of band), so the
\* requester is Idle again for the next stop and any number of stops in a row
\* behave alike.
C12_IdleStopIdempotent ==
    \A t \in TelegramIds :
        StopOfIdle(t) =>
            /\ Ids(users) = Ids(pre[t])
            /\ \A i \in Ids(users) :
                  /\ users[i].telegram_id = pre[t][i].telegram_id
                  /\ users[i].partner_id = pre[t][i].partner_id
                  /\ users[i].region = pre[t][i].region
                  /\ users[i].updated_at = pre[t][i].updated_at
            /\ Len(sent[t]) = 1
            /\ sent[t][1].to = t
            /\ sent[t][1].msg = "not_in_chat"

\* C12 witness: an Idle requester's stop has ended while two other rows were
\* Paired.
C12_Witness ==
    \E t \in TelegramIds :
        /\ StopOfIdle(t)
        /\ \E j \in Ids(users) : users[j].partner_id /= NULL

\* The text handler of account t has ended after its delivery to the partner
\* raised.
RelayFailed(t) ==
    /\ pc[t] = "done"
    /\ Len(sent[t]) >= 1
    /\ sent[t][1].msg = "text"
    /\ ~sent[t][1].ok

\* C13: when the delivery of a relayed text fails, the pairing stays as it
\* was (no row's partner field changes, the sender's and the partner's
\* included) and the sender is sent the "delivery failed, try next" notice.
C13_FailedRelayKeepsPair ==
    \A t \in TelegramIds :
        RelayFailed(t) =>
            /\ Ids(users) = Ids(pre[t])
            /\ \A i \in Ids(users) : users[i].partner_id = pre[t][i].partner_id
            /\ users[RowOf(users, t)].partner_id /= NULL
            /\ users[users[RowOf(users, t)].partner_id].partner_id = RowOf(users, t)
            /\ Len(sent[t]) = 2
            /\ sent[t][2].to = t
            /\ sent[t][2].msg = "delivery_failed"

\* C13 witness: a Paired sender's text was not delivered to its partner.
C13_Witness ==
    \E t \in TelegramIds :
        /\ RelayFailed(t)
        /\ sent[t][1].to = users[users[RowOf(users, t)].partner_id].telegram_id

\* The text handler of account t has ended, and when it began the sender's
\* row named a partner whose row was missing or named somebody else.
TextOfDangling(t) ==
    /\ pc[t] = "done"
    /\ query[t].text /= NoText
    /\ RowOf(pre[t], t) /= NULL
    /\ LET me == RowOf(pre[t], t)
           partner == pre[t][me].partner_id
       IN /\ partner /= NULL
          /\ \/ partner \notin Ids(pre[t])
             \/ pre[t][partner].partner_id /= me

C15_FirstContactRaceSafe ==
    /\ \A t \in TelegramIds : web[t] /= "IntegrityError"
    /\ \A i, j \in Ids(users) : users[i].telegram_id = users[j].telegram_id => i = j

\* The step is a whole text handler of account t, run while the region-input
\* sub-mode of t was on.
TextInSubMode(t) ==
    /\ pc[t] = "idle"
    /\ pc'[t] = "done"
    /\ query'[t].text /= NoText
    /\ user_data[t]

\* The sub-mode of t goes on only in the setregion branch of a premium user.
SubModeEntry(t) ==
    (~user_data[t] /\ user_data'[t]) =>
        /\ pc[t] = "answer"
        /\ query[t].data = "setregion"
        /\ users'[RowOf(users', t)].premium

\* The text handler took new_region as valid: region written, sub-mode off.
RegionAccepted(t, new_region) ==
    /\ users'[RowOf(users, t)].region = new_region
    /\ ~user_data'[t]
    /\ sent'[t][1].msg = "region_updated"

\* The text handler re-prompted: region as before, sub-mode still on.
RegionRejected(t) ==
    /\ users'[RowOf(users, t)].region = users[RowOf(users, t)].region
    /\ user_data'[t]
    /\ sent'[t][1].msg = "invalid_region"

C16_StepAsStated ==
    \A t \in TelegramIds :
        /\ SubModeEntry(t)
        /\ TextInSubMode(t) =>
              IF InContinents(query'[t].text)
              THEN RegionAccepted(t, query'[t].text)
              ELSE RegionRejected(t)

\* C16 as stated: the sub-mode is entered only by setregion from a premium
\* user; while it is on, a text that is a member of the region set becomes the
\* sender's region and clears the sub-mode, and every other text re-prompts,
\* leaves the region unchanged and keeps the sub-mode on.
C16_MemberTextOnly == [][C16_StepAsStated]_vars

C16_Step ==
    \A t \in TelegramIds :
        /\ SubModeEntry(t)
        /\ TextInSubMode(t) =>
              IF InContinents(Strip(query'[t].text))
              THEN RegionAccepted(t, Strip(query'[t].text))
              ELSE RegionRejected(t)

\* C16 (amended): the sub-mode is entered only by setregion from a premium
\* user; while it is on, a text which, with the whitespace around it removed,
\* is a member of the region set makes that member the sender's region and
\* clears the sub-mode, and every other text re-prompts, leaves the region
\* unchanged and keeps the sub-mode on.
C16_StrippedMemberText == [][C16_Step]_vars

\* C16 witness: a text with blanks around a region name has been taken as
\* that region.
C16_Witness ==
    \E t \in TelegramIds :
        /\ pc[t] = "done"
        /\ query[t].text = " Asia "
        /\ HasMsg(t, t, "region_updated")
        /\ ~user_data[t]
        /\ users[RowOf(users, t)].region = "Asia"
        /\ pre[t][RowOf(pre[t], t)].region /= "Asia"

\* The step is the setregion branch of account t, whose row is not premium.
SetRegionOfNonPremium(t) ==
    /\ pc[t] = "answer"
    /\ pc'[t] = "done"
    /\ query[t].data = "setregion"
    /\ Len(sent'[t]) = Len(sent[t]) + 1
    /\ ~users'[RowOf(users', t)].premium

C17_Step ==
    /\ \A i \in Ids(users) :
          ~users[i].premium => users'[i].region = users[i].region
    /\ \A t \in TelegramIds :
          SetRegionOfNonPremium(t) =>
              /\ sent'[t][Len(sent'[t])].to = t
              /\ sent'[t][Len(sent'[t])].msg = "premium_only"
              /\ ~user_data'[t]

\* C17: no step changes the region of a row that is not premium, whatever
\* text or button its account sends; the setregion branch of a non-premium
\* account replies "Premium only" and leaves the region-input sub-mode off.
C17_NonPremiumRegionFixed == [][C17_Step]_vars

\* C17 witness: an account whose row existed and is not premium has been
\* refused setregion.
C17_Witness ==
    \E t \in TelegramIds :
        /\ pc[t] = "done"
        /\ query[t].data = "setregion"
        /\ RowOf(pre[t], t) /= NULL
        /\ HasMsg(t, t, "premium_only")
        /\ ~user_data[t]
        /\ ~users[RowOf(users, t)].premium
        /\ users[RowOf(users, t)].region = pre[t][RowOf(pre[t], t)].region

\* The resolver as specified: Europe for no hint or an empty one; else the
\* table's value for the hint; else the table's value for the part of the
\* hint before its first "-"; else Europe.
Resolve(hint) ==
    IF hint = None \/ hint[1] = <<>> THEN "Europe"
    ELSE LET s == hint[1]
             dashes == {i \in 1..Len(s) : s[i] = "-"}
             primary == IF dashes = {} THEN s ELSE SubSeq(s, 1, Min(dashes) - 1)
             exact == {kv \in LANG_REGION_MAP : kv[1] = s}
             byPrimary == {kv \in LANG_REGION_MAP : kv[1] = primary}
         IN IF exact /= {} THEN (CHOOSE kv \in exact : TRUE)[2]
            ELSE IF byPrimary /= {} THEN (CHOOSE kv \in byPrimary : TRUE)[2]
            ELSE "Europe"

\* infer_region agrees with the specified resolver on every code, lands in the
\* region set, and gives the four values the specification lists.
ResolverAsSpecified ==
    /\ \A lc \in ResolveCodes :
          /\ infer_region(lc) = Resolve(lc)
          /\ InContinents(infer_region(lc))
    /\ infer_region(None) = "Europe"
    /\ infer_region(Some(<<"e","n","-","G","B">>)) = "Europe"
    /\ infer_region(Some(<<"j","a">>)) = "Asia"
    /\ infer_region(Some(<<"x","x","-","u","n","k","n","o","w","n">>)) = "Europe"

\* The step inserts the row of account t.
Created(t) == RowOf(users, t) = NULL /\ RowOf(users', t) /= NULL

\* The locale hint of the step that inserts the row of t: the language code
\* of the update being handled; a web request carries none.
HintOf(t) == IF web'[t] /= web[t] THEN None ELSE query'[t].language_code

C18_Step ==
    /\ ResolverAsSpecified
    /\ \A t \in TelegramIds :
          Created(t) => users'[RowOf(users', t)].region = Resolve(HintOf(t))

\* C18: the resolver is total into the region set, gives Europe for a null or
\* empty hint, looks up the exact hint, then its primary subtag, else gives
\* Europe (so null -> Europe, en-GB -> Europe, ja -> Asia, xx-unknown ->
\* Europe), and every newly inserted row has the resolver's output for the
\* hint of its first contact as region.
C18_ResolverGivesRegion == [][C18_Step]_vars

\* The next of account t skipped the account u and ran through: every send
\* succeeded and the re-entered find gave its reply. pre[t] is the table the
\* find began with. u's row is in the requester's region, and no third row of
\* that region was Idle.
NextRanThrough(t, u) ==
    /\ pc[t] = "done"
    /\ Len(sent[t]) >= 2
    /\ sent[t][1] = Msg(u, "skipped", TRUE)
    /\ sent[t][2] = Msg(t, "searching", TRUE)
    /\ FindAttempts(t) = 1
    /\ \A k \in DOMAIN sent[t] : sent[t][k].ok
    /\ pre[t][RowOf(pre[t], u)].region = pre[t][RowOf(pre[t], t)].region
    /\ \A j \in Ids(pre[t]) \ {RowOf(pre[t], t), RowOf(pre[t], u)} :
          ~(pre[t][j].partner_id = NULL /\ pre[t][j].region = pre[t][RowOf(pre[t], t)].region)

\* C19: when a next skips a partner of the requester's region, no third row
\* of the region is Idle and the handler runs through with every send
\* succeeding, the requester and the skipped partner are paired with each
\* other again, and the partner was sent "skipped" and then "found".
C19_NextRepairsSkipped ==
    \A t, u \in TelegramIds :
        NextRanThrough(t, u) =>
            /\ users[RowOf(users, t)].partner_id = RowOf(users, u)
            /\ users[RowOf(users, u)].partner_id = RowOf(users, t)
            /\ sent[t][Len(sent[t])] = Msg(u, "found", TRUE)

\* C19 witness: a next ran through and re-paired the two accounts while a
\* third account's row, in another region, was Idle.
C19_Witness ==
    \E t, u \in TelegramIds :
        /\ NextRanThrough(t, u)
        /\ users[RowOf(users, t)].partner_id = RowOf(users, u)
        /\ \E j \in Ids(users) : users[j].partner_id = NULL

\* The find of account t ran through with every send succeeding; when it
\* began the requester was Idle and the passive account's row was the one
\* oldest Idle row of the requester's region.
FindWithPassiveOldest(t) ==
    /\ pc[t] = "done"
    /\ query[t].data = "find"
    /\ FindAttempts(t) = 1
    /\ \A k \in DOMAIN sent[t] : sent[t][k].ok
    /\ RowOf(pre[t], t) /= NULL
    /\ RowOf(pre[t], PassiveId) /= NULL
    /\ LET me == RowOf(pre[t], t)
           p == RowOf(pre[t], PassiveId)
       IN /\ pre[t][me].partner_id = NULL
          /\ p \in EligibleFor(pre[t], t, pre[t][me].region)
          /\ \A j \in EligibleFor(pre[t], t, pre[t][me].region) \ {p} :
                pre[t][j].updated_at > pre[t][p].updated_at

\* C20: an account that never pressed Find -- it only sent /start or pressed
\* Stop -- is in the matching pool: when its row is the oldest Idle row of the
\* requester's region, another account's find pairs the two, while the passive
\* account has no handler of its own running.
C20_IdleIsInPool ==
    \A t \in TelegramIds \ {PassiveId} :
        FindWithPassiveOldest(t) =>
            /\ users[RowOf(users, t)].partner_id = RowOf(users, PassiveId)
            /\ users[RowOf(users, PassiveId)].partner_id = RowOf(users, t)
            /\ HasSend(t, PassiveId, "found", TRUE)
            /\ pc[PassiveId] = "idle"

\* C20 witness: the passive account has been paired by another account's find
\* although a younger Idle row of the region was there as well.
C20_Witness ==
    \E t \in TelegramIds \ {PassiveId} :
        /\ FindWithPassiveOldest(t)
        /\ users[RowOf(users, PassiveId)].partner_id = RowOf(users, t)
        /\ EligibleFor(pre[t], t, pre[t][RowOf(pre[t], t)].region) /= {RowOf(pre[t], PassiveId)}
====
